---------------------------- MODULE Spec2Model ----------------------------
(***************************************************************************)
(* TrackIt 4.3 (src/TrackIt 1/TrackIt 4.3.py): the study timer, its CSV    *)
(* log, the queries and charts that read the log, and the settings file.   *)
(*                                                                         *)
(* Numbers.  A Python float holding minutes is an integer count of 1/3000  *)
(* minute ("units": one second is 50 units, 0.01 minute is 30 units).  The *)
(* minutes column of a log row holds hundredths of a minute, which is what *)
(* round(minutes, 2) leaves in the file.  Dates are day numbers (the ISO   *)
(* date strings in their order), timestamps are seconds since midnight.    *)
(***************************************************************************)
EXTENDS Integers, Sequences, FiniteSets, TLC

VARIABLES
    phase,           \* "off" before StudyTrackerApp is constructed, "on" after
    file_exists,     \* os.path.exists(CSV_FILE)
    log,             \* the data rows of CSV_FILE, in file order
    today,           \* datetime.now().date()
    timer_running,   \* self.timer_running
    remaining_time,  \* self.remaining_time   (seconds)
    logged_time,     \* self.logged_time      (seconds)
    duration_var,    \* text of the Duration entry
    subject_var,     \* text of the Subject combo box
    pending,         \* update_timer callbacks armed with root.after and not yet fired
    timer_label,     \* seconds shown by the timer label
    btn_text,        \* text of the Start/Pause button
    progress_total,  \* minutes (hundredths) shown by the progress label
    message,         \* title of the message box shown by the last handler
    uncaught,        \* exception the last handler let escape, or "none"
    result,          \* value returned by the last query
    config_file,     \* contents of CONFIG_FILE
    config,          \* self.config: subjects, daily_goal, theme of ConfigManager
    daily_goal,      \* self.daily_goal
    goal_var,        \* text of the Goal entry
    clock            \* datetime.now(): seconds since midnight of today

vars == << phase, file_exists, log, today, timer_running, remaining_time,
           logged_time, duration_var, subject_var, pending, timer_label,
           btn_text, progress_total, message, uncaught, result,
           config_file, config, daily_goal, goal_var, clock >>

---------------------------------------------------------------------------
(* Bounds of the model.                                                    *)

MaxLog == 2          \* rows the log may hold in the timer specifications
MaxPending == 2      \* callbacks that may be armed at once
MaxSeconds == 9      \* longest countdown the timer specifications follow

---------------------------------------------------------------------------
(* Field contents.                                                         *)

Subjects == {"Math", "Physics"}
SubjectTexts == {"", "Math"}
DurationTexts == {"", "-1", "0.15"}
NowTimes == {36000}     \* 10:00:00

NoResult == [op |-> "none"]

Num(c) == [tag |-> "num", val |-> c]
NotANumber == [tag |-> "text", val |-> 0]     \* a minutes field such as "abc"
Missing == [tag |-> "none", val |-> 0]        \* a short row: DictReader gives None
NaNField == [tag |-> "nan", val |-> 0]        \* the field "nan", which float() accepts
NaNTotal == "nan"                             \* a sum that has met a nan

Row(d, t, s, m) == [date |-> d, timestamp |-> t, subject |-> s, minutes |-> m]

---------------------------------------------------------------------------
(* Python arithmetic.                                                      *)

\* float(text): the value in units of 1/3000 minute, the not-a-number that
\* float("nan") returns, or the exception raised.
FloatOf(text) ==
    CASE text = "-1"    -> [k |-> "num", v |-> -3000]
      [] text = "0.05"  -> [k |-> "num", v |-> 150]
      [] text = "0.1"   -> [k |-> "num", v |-> 300]
      [] text = "0.125" -> [k |-> "num", v |-> 375]
      [] text = "0.15"  -> [k |-> "num", v |-> 450]
      [] text = "0.2"   -> [k |-> "num", v |-> 600]
      [] text = "1500"  -> [k |-> "num", v |-> 4500000]
      [] text = "30"    -> [k |-> "num", v |-> 90000]
      [] text = "nan"   -> [k |-> "nan", v |-> 0]
      [] OTHER          -> [k |-> "ValueError", v |-> 0]

\* str.isalnum() of text.strip().
IsAlnum(text) == text \in {"Math", "Physics"}

\* int(x): truncation toward zero.
Trunc(n, d) == IF n >= 0 THEN n \div d ELSE -((-n) \div d)

\* int(mins * 60): whole seconds of a float of minutes.
IntSeconds(u) == Trunc(u, 50)

\* round(minutes, 2), in hundredths: round half to even.
Round2(u) ==
    LET q == u \div 30
        r == u % 30
    IN  IF 2 * r < 30 THEN q
        ELSE IF 2 * r > 30 THEN q + 1
        ELSE IF q % 2 = 0 THEN q ELSE q + 1

---------------------------------------------------------------------------
(* CSVLogger.                                                              *)

\* CSVLogger.__init__: the file is written (header only) when it is absent.
CSVLoggerInit(exists, rows) ==
    IF exists THEN [exists |-> TRUE, rows |-> rows]
    ELSE [exists |-> TRUE, rows |-> << >>]

\* round(minutes, 2) as writerow puts it in the minutes column, for the
\* float f; round(nan, 2) is nan.
MinutesColumn(f) == IF f.k = "nan" THEN NaNField ELSE Num(Round2(f.v))

\* CSVLogger.log with the file opened in mode 'w' instead of 'a'.
LogAppendTruncating(rows, date, time, subject, f) ==
    << Row(date, time, subject, MinutesColumn(f)) >>

\* CSVLogger.log: open(filename, 'a') and writerow.
LogAppend(rows, date, time, subject, f) ==
    Append(rows, Row(date, time, subject, MinutesColumn(f)))

\* The loop of get_today_minutes over rows[i..]: the total, or the
\* exception that leaves the loop (float(None) raises TypeError, which the
\* inner except (ValueError, KeyError) does not catch).  A field "nan" is
\* added like a number and turns the total into nan, whatever else is
\* added: v is the total of the other rows, TodayIsNaN tells the rest.
RECURSIVE TodayLoop(_, _, _, _)
TodayLoop(rows, i, day, total) ==
    IF i > Len(rows) THEN [k |-> "ok", v |-> total]
    ELSE IF rows[i].date # day THEN TodayLoop(rows, i + 1, day, total)
    ELSE IF rows[i].minutes.tag = "num"
         THEN TodayLoop(rows, i + 1, day, total + rows[i].minutes.val)
    ELSE IF rows[i].minutes.tag \in {"text", "nan"}
         THEN TodayLoop(rows, i + 1, day, total)
    ELSE [k |-> "TypeError", v |-> total]

\* get_today_minutes returns nan: the loop ends without an exception and a
\* row of the day holds "nan".
TodayIsNaN(exists, rows, day) ==
    /\ exists
    /\ TodayLoop(rows, 1, day, 0).k = "ok"
    /\ \E i \in DOMAIN rows : rows[i].date = day /\ rows[i].minutes.tag = "nan"

\* CSVLogger.get_today_minutes: the outer except returns 0.
GetTodayMinutes(exists, rows, day) ==
    IF ~exists THEN 0
    ELSE LET r == TodayLoop(rows, 1, day, 0)
         IN  IF r.k # "ok" THEN 0
             ELSE IF TodayIsNaN(exists, rows, day) THEN NaNTotal
             ELSE r.v

\* data[date][subject] += minutes on the defaultdict of defaultdicts.
AddMinutes(data, date, subject, m) ==
    IF date \notin DOMAIN data THEN data @@ (date :> (subject :> m))
    ELSE IF subject \notin DOMAIN data[date]
         THEN [data EXCEPT ![date] = @ @@ (subject :> m)]
    ELSE [data EXCEPT ![date][subject] = @ + m]

NoData == [date \in {} |-> 0]

\* The loop of get_weekly_data and of get_all_data over rows[i..]: float()
\* comes before data[date][subject] is touched; ValueError is caught in
\* the loop, the TypeError of float(None) leaves it.  A field "nan" makes
\* the entry of its date and subject (see MarkNaN).
RECURSIVE DataLoop(_, _, _)
DataLoop(rows, i, data) ==
    IF i > Len(rows) THEN [k |-> "ok", v |-> data]
    ELSE IF rows[i].minutes.tag = "num"
         THEN DataLoop(rows, i + 1,
                       AddMinutes(data, rows[i].date, rows[i].subject,
                                  rows[i].minutes.val))
    ELSE IF rows[i].minutes.tag = "nan"
         THEN DataLoop(rows, i + 1,
                       AddMinutes(data, rows[i].date, rows[i].subject, 0))
    ELSE IF rows[i].minutes.tag = "text" THEN DataLoop(rows, i + 1, data)
    ELSE [k |-> "TypeError", v |-> data]

\* A total to which a nan was added is nan.
MarkNaN(data, rows) ==
    [date \in DOMAIN data |->
        [subject \in DOMAIN data[date] |->
            IF \E i \in DOMAIN rows : /\ rows[i].date = date
                                      /\ rows[i].subject = subject
                                      /\ rows[i].minutes.tag = "nan"
            THEN NaNTotal
            ELSE data[date][subject]]]

\* CSVLogger.get_weekly_data: the outer except returns an empty defaultdict.
GetWeeklyData(exists, rows) ==
    IF ~exists THEN NoData
    ELSE LET r == DataLoop(rows, 1, NoData)
         IN  IF r.k = "ok" THEN MarkNaN(r.v, rows) ELSE NoData

\* CSVLogger.get_all_data: the same code as get_weekly_data.
GetAllData(exists, rows) ==
    IF ~exists THEN NoData
    ELSE LET r == DataLoop(rows, 1, NoData)
         IN  IF r.k = "ok" THEN MarkNaN(r.v, rows) ELSE NoData

---------------------------------------------------------------------------
(* plot_hourly_productivity_multiline.  Times are counted in fifths of a   *)
(* second from midnight of the row's date: a timestamp second is 5, a      *)
(* hundredth of a minute is 3 and an hour is 18000.                        *)

WeekLen == 7
HourLen == 18000

Min(a, b) == IF a <= b THEN a ELSE b
Max(a, b) == IF a >= b THEN a ELSE b

\* sorted(data.keys()) without the [-7:] slice.
AllDates(data) == DOMAIN data

\* sorted(data.keys())[-7:]
LastDates(data) ==
    { d \in DOMAIN data : Cardinality({ e \in DOMAIN data : e > d }) < WeekLen }

\* The while loop with next_hour taken one hour after current instead of at
\* the next full hour.
RECURSIVE SlicesUnaligned(_, _)
SlicesUnaligned(current, end_time) ==
    IF ~(current < end_time) THEN << >>
    ELSE LET hour == (current \div HourLen) % 24
             next_hour == current + HourLen
             slice_end == Min(end_time, next_hour)
         IN  << [hour |-> hour, amount |-> slice_end - current] >>
             \o SlicesUnaligned(slice_end, end_time)

\* The while loop: the slices (hour, minutes_in_hour) added for a session
\* from current to end_time.
RECURSIVE Slices(_, _)
Slices(current, end_time) ==
    IF ~(current < end_time) THEN << >>
    ELSE LET hour == (current \div HourLen) % 24
             next_hour == (current \div HourLen + 1) * HourLen
             slice_end == Min(end_time, next_hour)
         IN  << [hour |-> hour, amount |-> slice_end - current] >>
             \o Slices(slice_end, end_time)

\* The try block for one row: an unparsable minutes field raises before
\* anything is added.
RowSlices(row) ==
    IF row.minutes.tag # "num" THEN << >>
    ELSE LET start_time == row.timestamp * 5
         IN  Slices(start_time, start_time + row.minutes.val * 3)

\* hourly_by_day[date][hour] += minutes_in_hour for each slice.
RECURSIVE AddSlices(_, _, _)
AddSlices(by_day, date, slices) ==
    IF slices = << >> THEN by_day
    ELSE AddSlices([by_day EXCEPT ![date][slices[1].hour] = @ + slices[1].amount],
                   date, Tail(slices))

\* The loop over the rows of the file.
RECURSIVE HourlyLoop(_, _, _, _)
HourlyLoop(rows, i, last_7_dates, by_day) ==
    IF i > Len(rows) THEN by_day
    ELSE IF rows[i].date \notin last_7_dates
         THEN HourlyLoop(rows, i + 1, last_7_dates, by_day)
    ELSE HourlyLoop(rows, i + 1, last_7_dates,
                    AddSlices(by_day, rows[i].date, RowSlices(rows[i])))

\* hourly_by_day as plot_hourly_productivity_multiline(data) leaves it.
HourlyByDay(data, rows) ==
    LET last_7_dates == LastDates(data)
    IN  HourlyLoop(rows, 1, last_7_dates,
                   [date \in last_7_dates |-> [h \in 0..23 |-> 0]])

\* An average is counted in 1/420 of the unit of the buckets, so that the
\* division by a window of one to seven dates is exact.
AvgScale == 420

\* sum(hourly_by_day[day][h] for day in last_7_dates)
RECURSIVE SumHour(_, _, _)
SumHour(by_day, days, h) ==
    IF days = {} THEN 0
    ELSE LET day == CHOOSE d \in days : TRUE
         IN  by_day[day][h] + SumHour(by_day, days \ {day}, h)

\* hourly_totals: total / len(last_7_dates) if last_7_dates else 0.
HourlyTotals(data, rows) ==
    LET last_7_dates == LastDates(data)
        by_day == HourlyByDay(data, rows)
    IN  [h \in 0..23 |->
            IF last_7_dates # {}
            THEN (SumHour(by_day, last_7_dates, h) * AvgScale)
                     \div Cardinality(last_7_dates)
            ELSE 0]

---------------------------------------------------------------------------
(* ConfigManager.  A Python value and a JSON value are a type tag t and    *)
(* the value in a field named after the type; json.dump and json.load map  *)
(* one to the other.                                                       *)

settings == << config_file, config, daily_goal, goal_var >>

PyInt(n) == [t |-> "int", int |-> n]
PyStr(text) == [t |-> "str", str |-> text]
PyList(q) == [t |-> "list", list |-> q]
PyNone == [t |-> "NoneType"]

JNumber(n) == [t |-> "number", number |-> n]
JString(text) == [t |-> "string", string |-> text]
JArray(q) == [t |-> "array", array |-> q]
JNull == [t |-> "null"]

\* json.load on one value.
FromJson(j) ==
    CASE j.t = "number" -> PyInt(j.number)
      [] j.t = "string" -> PyStr(j.string)
      [] j.t = "array"  -> PyList(j.array)
      [] j.t = "null"   -> PyNone

\* json.dump on one value.
ToJson(x) ==
    CASE x.t = "int"      -> JNumber(x.int)
      [] x.t = "str"      -> JString(x.str)
      [] x.t = "list"     -> JArray(x.list)
      [] x.t = "NoneType" -> JNull

DEFAULT_SUBJECTS == PyList(<< "Math", "Physics", "Chemistry" >>)
DEFAULT_DAILY_GOAL == 690
DefaultTheme == PyStr("system")

\* CONFIG_FILE: absent, not parsable as JSON, JSON that is no object, or a
\* JSON object (a function from some of the keys to JSON values).
NoFields == [key \in {} |-> JNull]
ConfigAbsent == [kind |-> "absent", fields |-> NoFields]
ConfigGarbage == [kind |-> "garbage", fields |-> NoFields]
ConfigNotObject == [kind |-> "array", fields |-> NoFields]
ConfigObject(fields) == [kind |-> "object", fields |-> fields]

\* ConfigManager.__init__ before load_config, and the except branch.
DefaultConfig ==
    [subjects |-> DEFAULT_SUBJECTS, daily_goal |-> PyInt(DEFAULT_DAILY_GOAL),
     theme |-> DefaultTheme]

\* config.get(key, default)
Get(fields, key, default) ==
    IF key \in DOMAIN fields THEN FromJson(fields[key]) ELSE default

\* load_config falling back to all three defaults as soon as one key is
\* missing from the object.
LoadConfigAllOrNothing(file) ==
    IF file.kind = "object" /\ DOMAIN file.fields = {"subjects", "daily_goal", "theme"}
    THEN [subjects |-> FromJson(file.fields["subjects"]),
          daily_goal |-> FromJson(file.fields["daily_goal"]),
          theme |-> FromJson(file.fields["theme"])]
    ELSE DefaultConfig

\* ConfigManager.load_config on a new instance: nothing is read when the
\* file is absent; json.load failing or the isinstance test raising resets
\* the three fields to the defaults.
LoadConfig(file) ==
    IF file.kind = "object"
    THEN [subjects |-> Get(file.fields, "subjects", DEFAULT_SUBJECTS),
          daily_goal |-> Get(file.fields, "daily_goal", PyInt(DEFAULT_DAILY_GOAL)),
          theme |-> Get(file.fields, "theme", DefaultTheme)]
    ELSE DefaultConfig

ConfigKeys == {"subjects", "daily_goal", "theme"}

\* save_config writing only 'subjects' and 'daily_goal' into the file.
SaveConfigWithoutTheme(c, new_subjects, new_daily_goal, new_theme) ==
    LET current == [subjects |-> IF new_subjects.t # "NoneType"
                                 THEN new_subjects ELSE c.subjects,
                    daily_goal |-> IF new_daily_goal.t # "NoneType"
                                   THEN new_daily_goal ELSE c.daily_goal,
                    theme |-> IF new_theme.t # "NoneType"
                              THEN new_theme ELSE c.theme]
    IN  [config |-> current,
         file |-> ConfigObject([key \in {"subjects", "daily_goal"} |->
                                   ToJson(current[key])])]

\* ConfigManager.save_config(new_subjects, new_daily_goal, new_theme) on the
\* instance c: the instance after the call and the file it wrote.
SaveConfig(c, new_subjects, new_daily_goal, new_theme) ==
    LET current == [subjects |-> IF new_subjects.t # "NoneType"
                                 THEN new_subjects ELSE c.subjects,
                    daily_goal |-> IF new_daily_goal.t # "NoneType"
                                   THEN new_daily_goal ELSE c.daily_goal,
                    theme |-> IF new_theme.t # "NoneType"
                              THEN new_theme ELSE c.theme]
    IN  [config |-> current,
         file |-> ConfigObject([key \in ConfigKeys |-> ToJson(current[key])])]

\* int(text) on the texts of the Goal entry: surrounding blanks are
\* accepted, a fraction, a word or the empty text raise ValueError.
IntOf(text) ==
    CASE text = "30"    -> [k |-> "num", v |-> 30]
      [] text = " 45 "  -> [k |-> "num", v |-> 45]
      [] text = "690"   -> [k |-> "num", v |-> 690]
      [] text = "1440"  -> [k |-> "num", v |-> 1440]
      [] text = "2000"  -> [k |-> "num", v |-> 2000]
      [] text = "0"     -> [k |-> "num", v |-> 0]
      [] text = "-5"    -> [k |-> "num", v |-> -5]
      [] OTHER          -> [k |-> "ValueError", v |-> 0]

\* str(self.daily_goal)
StrOf(x) ==
    CASE x.t = "str" -> x.str
      [] x.t = "int" /\ x.int = 30   -> "30"
      [] x.t = "int" /\ x.int = 45   -> "45"
      [] x.t = "int" /\ x.int = 690  -> "690"
      [] x.t = "int" /\ x.int = 1440 -> "1440"
      [] x.t = "int" /\ x.int = 2000 -> "2000"
      [] x.t = "int" /\ x.int = 0    -> "0"
      [] x.t = "int" /\ x.int = -5   -> "-5"
      [] OTHER -> "None"

\* text.split("\n") with each line stripped and the empty lines dropped.
SubjectLines(text) ==
    CASE text = "Math\nArt"   -> << "Math", "Art" >>
      [] text = " Bio \n\n"   -> << "Bio" >>
      [] text = " \n"         -> << >>
      [] OTHER                -> << >>

\* set_goal: "if new_goal > 1440: new_goal = 1440".
ClampGoal(g) == IF g > 1440 THEN 1440 ELSE g

---------------------------------------------------------------------------
(* StudyTrackerApp: the handlers as functions of the program state s.      *)

State == [ file_exists |-> file_exists, log |-> log,
           timer_running |-> timer_running, remaining_time |-> remaining_time,
           logged_time |-> logged_time, duration_var |-> duration_var,
           subject_var |-> subject_var, pending |-> pending,
           timer_label |-> timer_label, btn_text |-> btn_text,
           progress_total |-> progress_total, message |-> message,
           uncaught |-> uncaught ]

\* update_goal_progress raises: int(total // 60) is a ValueError when
\* get_today_minutes returns nan.
ProgressRaises(s) == TodayIsNaN(s.file_exists, s.log, today)

\* StudyTrackerApp.update_goal_progress: the label is left as it was when
\* the call raises.
UpdateGoalProgress(s) ==
    IF ProgressRaises(s) THEN s
    ELSE [s EXCEPT !.progress_total = GetTodayMinutes(s.file_exists, s.log, today)]

\* self.logger.log(subject, minutes) followed by self.update_goal_progress(),
\* for the float f.
LogAndProgress(s, now, subject, f) ==
    UpdateGoalProgress([s EXCEPT !.log = LogAppend(s.log, today, now, subject, f)])

\* update_timer's first branch without the "if self.timer_running" test.
UpdateTimerDoneLogsStopped(s, now) ==
    LET f == FloatOf(s.duration_var)
        s1 == [s EXCEPT !.timer_label = 0]
        logged == LogAndProgress(s1, now, s.subject_var, f)
        s2 == IF f.k # "ValueError" /\ s.subject_var # ""
              THEN IF ProgressRaises(logged)
                   THEN logged
                   ELSE [logged EXCEPT !.message = "Session Complete"]
              ELSE s1
    IN  [s2 EXCEPT !.timer_running = FALSE, !.btn_text = "Start"]

\* update_timer, first branch: the countdown is over.
UpdateTimerDone(s, now) ==
    LET f == FloatOf(s.duration_var)
        s1 == [s EXCEPT !.timer_label = 0]
        logged == LogAndProgress(s1, now, s.subject_var, f)
        s2 == IF s.timer_running /\ f.k # "ValueError" /\ s.subject_var # ""
              THEN IF ProgressRaises(logged)
                   THEN logged          \* except ValueError: pass
                   ELSE [logged EXCEPT !.message = "Session Complete"]
              ELSE s1
    IN  [s2 EXCEPT !.timer_running = FALSE, !.btn_text = "Start"]

\* update_timer's second branch without the root.after call.
UpdateTimerTickNoRearm(s) ==
    [s EXCEPT !.timer_label = s.remaining_time,
              !.remaining_time = s.remaining_time - 1]

\* update_timer, second branch: show the time, count one second, re-arm.
UpdateTimerTick(s) ==
    [s EXCEPT !.timer_label = s.remaining_time,
              !.remaining_time = s.remaining_time - 1,
              !.pending = IF s.timer_running THEN s.pending + 1 ELSE s.pending]

\* StudyTrackerApp.update_timer.
UpdateTimerBody(s, now) ==
    IF s.remaining_time <= 0 THEN UpdateTimerDone(s, now) ELSE UpdateTimerTick(s)

\* toggle_timer's Start click without the "if self.remaining_time <= 0" test:
\* the duration field is read again on every Start.
StartBranchRereads(s, now) ==
    LET f == FloatOf(s.duration_var)
    IN  IF f.k # "num" \/ s.subject_var = ""
        THEN [s EXCEPT !.message = "Invalid Input"]
        ELSE UpdateTimerBody([s EXCEPT !.remaining_time = IntSeconds(f.v),
                                       !.logged_time = 0,
                                       !.timer_running = TRUE,
                                       !.btn_text = "Pause"], now)

\* toggle_timer's Start click with remaining_time assigned before the
\* subject is looked at.
StartBranchAssignsFirst(s, now) ==
    LET f == FloatOf(s.duration_var)
        go(s1) == UpdateTimerBody([s1 EXCEPT !.timer_running = TRUE,
                                             !.btn_text = "Pause"], now)
    IN  IF s.remaining_time <= 0
        THEN IF f.k # "num"
             THEN [s EXCEPT !.message = "Invalid Input"]
             ELSE IF s.subject_var = ""
             THEN [s EXCEPT !.remaining_time = IntSeconds(f.v),
                            !.message = "Invalid Input"]
             ELSE go([s EXCEPT !.remaining_time = IntSeconds(f.v),
                               !.logged_time = 0])
        ELSE go(s)

\* toggle_timer, timer not running: the Start click.  int(mins * 60) is a
\* ValueError for nan, caught like the one of float().
StartBranch(s, now) ==
    LET f == FloatOf(s.duration_var)
        go(s1) == UpdateTimerBody([s1 EXCEPT !.timer_running = TRUE,
                                             !.btn_text = "Pause"], now)
    IN  IF s.remaining_time <= 0
        THEN IF f.k # "num" \/ s.subject_var = ""
             THEN [s EXCEPT !.message = "Invalid Input"]
             ELSE go([s EXCEPT !.remaining_time = IntSeconds(f.v),
                               !.logged_time = 0])
        ELSE go(s)

\* toggle_timer, timer running: the Pause click.  Nothing here is inside a
\* try: float(duration_var.get()), int() of a nan and update_goal_progress
\* raise out of the handler.
PauseBranch(s, now) ==
    LET f == FloatOf(s.duration_var)
        total_seconds_set == IntSeconds(f.v)
        elapsed_seconds == total_seconds_set - s.remaining_time
        new_session_seconds == elapsed_seconds - s.logged_time
        logged == LogAndProgress(s, now, s.subject_var,
                                 [k |-> "num", v |-> new_session_seconds * 50])
    IN  IF f.k # "num"
        THEN [s EXCEPT !.uncaught = "ValueError"]
        ELSE IF new_session_seconds > 6      \* session_minutes > 0.1
        THEN IF ProgressRaises(logged)
             THEN [logged EXCEPT !.uncaught = "ValueError"]
             ELSE [logged EXCEPT !.logged_time = s.logged_time + new_session_seconds,
                                 !.message = "Session Paused",
                                 !.timer_running = FALSE, !.btn_text = "Start"]
        ELSE [s EXCEPT !.timer_running = FALSE, !.btn_text = "Start"]

\* StudyTrackerApp.toggle_timer.
ToggleTimerBody(s, now) ==
    IF ~s.timer_running THEN StartBranch(s, now) ELSE PauseBranch(s, now)

\* StudyTrackerApp.reset_timer.
ResetTimerBody(s) ==
    [s EXCEPT !.duration_var = "", !.subject_var = "",
              !.timer_running = FALSE, !.remaining_time = 0,
              !.logged_time = 0, !.timer_label = 0, !.btn_text = "Start"]

\* StudyTrackerApp.manual_log: the Log Session Now click.  A nan passes
\* both comparisons (nan <= 0 and nan > 1440 are false); a ValueError of
\* update_goal_progress is caught by the handler's except like the others.
ManualLogBody(s, now) ==
    LET f == FloatOf(s.duration_var)
        mins == IF f.k = "num" /\ f.v > 1440 * 3000
                THEN [k |-> "num", v |-> 1440 * 3000] ELSE f
        logged == LogAndProgress(s, now, s.subject_var, mins)
    IN  IF \/ f.k = "ValueError"
           \/ f.k = "num" /\ f.v <= 0
           \/ s.subject_var = ""
           \/ ~IsAlnum(s.subject_var)
        THEN [s EXCEPT !.message = "Invalid Input"]
        ELSE IF ProgressRaises(logged)
        THEN [logged EXCEPT !.message = "Invalid Input"]
        ELSE [logged EXCEPT !.message = "Session Logged"]

\* The state a handler starts from: no box shown, nothing raised yet.
Fresh == [State EXCEPT !.message = "none", !.uncaught = "none"]

Assign(t) ==
    /\ Len(t.log) <= MaxLog
    /\ t.pending <= MaxPending
    /\ t.remaining_time <= MaxSeconds
    /\ file_exists' = t.file_exists
    /\ log' = t.log
    /\ timer_running' = t.timer_running
    /\ remaining_time' = t.remaining_time
    /\ logged_time' = t.logged_time
    /\ duration_var' = t.duration_var
    /\ subject_var' = t.subject_var
    /\ pending' = t.pending
    /\ timer_label' = t.timer_label
    /\ btn_text' = t.btn_text
    /\ progress_total' = t.progress_total
    /\ message' = t.message
    /\ uncaught' = t.uncaught

---------------------------------------------------------------------------
(* The application: construction, typing, clicks and the timer callback.   *)

\* StudyTrackerApp.__init__: ConfigManager(), CSVLogger(CSV_FILE), the timer state, the
\* widgets, and update_goal_progress() at the end of build_main_ui.
Startup ==
    /\ phase = "off"
    /\ LET c == LoadConfig(config_file)
           f == CSVLoggerInit(file_exists, log)
           s == [State EXCEPT !.file_exists = f.exists, !.log = f.rows]
       IN  /\ config' = c
           /\ daily_goal' = c.daily_goal
           /\ goal_var' = StrOf(c.daily_goal)
           /\ IF c.daily_goal.t = "int" /\ ~ProgressRaises(s)
              THEN /\ phase' = "on"
                   /\ Assign(UpdateGoalProgress(s))
              ELSE \* update_goal_progress raises ("self.daily_goal > 0" is a
                   \* TypeError, int() of a nan total a ValueError); the
                   \* handler around the construction shows "Fatal Error"
                   \* and the program ends
                   /\ phase' = "failed"
                   /\ Assign([s EXCEPT !.message = "Fatal Error"])
    /\ UNCHANGED << today, result, config_file, clock >>

TypeDuration(text) ==
    /\ phase = "on"
    /\ text # duration_var
    /\ Assign([Fresh EXCEPT !.duration_var = text])
    /\ UNCHANGED << phase, today, result, settings, clock >>

TypeSubject(text) ==
    /\ phase = "on"
    /\ text # subject_var
    /\ Assign([Fresh EXCEPT !.subject_var = text])
    /\ UNCHANGED << phase, today, result, settings, clock >>

\* A click on the Start/Pause button.
ToggleTimer(now) ==
    /\ phase = "on"
    /\ Assign(ToggleTimerBody(Fresh, now))
    /\ UNCHANGED << phase, today, result, settings, clock >>

\* A click on the Reset button.
ResetTimer ==
    /\ phase = "on"
    /\ Assign(ResetTimerBody(Fresh))
    /\ UNCHANGED << phase, today, result, settings, clock >>

\* A click on the Log Session Now button.
ManualLog(now) ==
    /\ phase = "on"
    /\ Assign(ManualLogBody(Fresh, now))
    /\ UNCHANGED << phase, today, result, settings, clock >>

\* An armed update_timer callback fires.
UpdateTimer(now) ==
    /\ phase = "on"
    /\ pending > 0
    /\ Assign(UpdateTimerBody([Fresh EXCEPT !.pending = pending - 1], now))
    /\ UNCHANGED << phase, today, result, settings, clock >>

---------------------------------------------------------------------------
(* The files the application may find when it starts.                      *)

OldRows == { Row(1, 36000, "Math", Num(3000)) }

InitFile ==
    \/ file_exists = FALSE /\ log = << >>
    \/ file_exists = TRUE /\ \E r \in OldRows : log = << r >>

Init ==
    /\ phase = "off"
    /\ InitFile
    /\ today = 1
    /\ timer_running = FALSE
    /\ remaining_time = 0
    /\ logged_time = 0
    /\ duration_var = ""
    /\ subject_var = ""
    /\ pending = 0
    /\ timer_label = 0
    /\ btn_text = "Start"
    /\ progress_total = 0
    /\ message = "none"
    /\ uncaught = "none"
    /\ result = NoResult
    /\ config_file = ConfigAbsent
    /\ config = DefaultConfig
    /\ daily_goal = PyInt(DEFAULT_DAILY_GOAL)
    /\ goal_var = "690"
    /\ clock \in NowTimes

Next ==
    \/ Startup
    \/ \E text \in DurationTexts : TypeDuration(text)
    \/ \E text \in SubjectTexts : TypeSubject(text)
    \/ \E now \in NowTimes : ToggleTimer(now)
    \/ ResetTimer
    \/ \E now \in NowTimes : ManualLog(now)
    \/ \E now \in NowTimes : UpdateTimer(now)

Spec == Init /\ [][Next]_vars

---------------------------------------------------------------------------
(* Properties of the application (checked under Spec).                     *)

Click == \E now \in NowTimes : ToggleTimer(now)

\* C2: for every interleaving of clicks and callbacks at most one
\* update_timer callback is armed, so a running countdown loses one second
\* per elapsed second.
C2_OneCallbackPending == pending <= 1

\* C3: the log is append-only: every step leaves the rows that were there
\* unchanged and in place and adds at most one row at the end, and
\* constructing CSVLogger on an existing file leaves the file as it was.
C3_AppendOnly ==
    [][ /\ Len(log') \in {Len(log), Len(log) + 1}
        /\ SubSeq(log', 1, Len(log)) = log
        /\ (phase = "off" /\ phase' = "on" /\ file_exists => log' = log)
      ]_vars

\* A row was appended behind a row the file held before the program started.
C3_Witness ==
    /\ phase = "on"
    /\ Len(log) = 2
    /\ log[1] \in OldRows

\* C8: a Start click on a paused timer (remaining_time > 0) goes on from
\* the remaining_time it finds (the label shows it, the first second is
\* counted) and keeps logged_time, whatever the duration field holds; a
\* Pause click leaves remaining_time alone; a Start click with
\* remaining_time <= 0 and valid fields starts from int(minutes * 60) with
\* logged_time 0.
C8_Toggle ==
    [][ Click =>
          /\ (~timer_running /\ remaining_time > 0 =>
                 /\ timer_running'
                 /\ logged_time' = logged_time
                 /\ timer_label' = remaining_time
                 /\ remaining_time' = remaining_time - 1)
          /\ (timer_running => remaining_time' = remaining_time
                                /\ timer_label' = timer_label)
          /\ (/\ ~timer_running
              /\ remaining_time <= 0
              /\ FloatOf(duration_var).k = "num"
              /\ subject_var # ""
              => LET n == IntSeconds(FloatOf(duration_var).v)
                 IN  /\ logged_time' = 0
                     /\ IF n > 0
                        THEN /\ timer_running'
                             /\ timer_label' = n
                             /\ remaining_time' = n - 1
                        ELSE /\ ~timer_running'
                             /\ remaining_time' = n)
      ]_vars

\* A timer that logged time at a Pause runs again with that logged_time,
\* while the duration field holds something else than the running duration.
C8_Witness ==
    /\ timer_running
    /\ logged_time > 0
    /\ remaining_time > 0
    /\ duration_var = ""

\* C9: no click lets an exception escape, and a Pause click on a running
\* timer ends with timer_running false and the button reading Start.
C9_NoUncaught ==
    [][ /\ uncaught' = "none"
        /\ (Click /\ timer_running => ~timer_running' /\ btn_text' = "Start")
      ]_vars

\* C10: a Start click with remaining_time <= 0 and a duration that is not
\* a number, or an empty subject, shows Invalid Input and changes nothing.
C10_InvalidStart ==
    [][ /\ Click
        /\ ~timer_running
        /\ remaining_time <= 0
        /\ (FloatOf(duration_var).k = "ValueError" \/ subject_var = "")
        => /\ message' = "Invalid Input"
           /\ uncaught' = "none"
           /\ UNCHANGED << timer_running, remaining_time, logged_time,
                           pending, log, btn_text >>
      ]_vars

\* The Start click was refused for its empty subject alone, with a callback
\* of an earlier run still armed.
C10_Witness ==
    /\ message = "Invalid Input"
    /\ ~timer_running
    /\ remaining_time <= 0
    /\ duration_var = "0.15"
    /\ subject_var = ""
    /\ pending = 1


---------------------------------------------------------------------------
(* One timer run: the fields are filled in, Start is clicked once, and the *)
(* user then leaves the program alone.  Tk's event loop fires a callback   *)
(* armed with root.after(1000, ...) once its second has passed.            *)

RunDurationTexts == {"0.05", "0.1", "0.125", "0.15"}

\* No click has been made yet.
RunIdle ==
    /\ phase = "on"
    /\ ~timer_running
    /\ pending = 0
    /\ message = "none"

NextRun ==
    \/ Startup
    \/ RunIdle /\ \E text \in RunDurationTexts : TypeDuration(text)
    \/ RunIdle /\ \E text \in Subjects : TypeSubject(text)
    \/ /\ RunIdle
       /\ duration_var \in RunDurationTexts
       /\ subject_var # ""
       /\ \E now \in NowTimes : ToggleTimer(now)
    \/ \E now \in NowTimes : UpdateTimer(now)

SpecRun ==
    /\ Init
    /\ [][NextRun]_vars
    /\ WF_vars(\E now \in NowTimes : UpdateTimer(now))

InitialLogs == { << >> } \cup { << r >> : r \in OldRows }

\* The timer was started by the click, from log l0, for d minutes of sub.
RunStarted(d, sub, l0) ==
    /\ timer_running
    /\ duration_var = d
    /\ subject_var = sub
    /\ log = l0

\* The run is over and left exactly the row (sub, m hundredths) behind l0.
RunDone(sub, l0, m) ==
    /\ ~timer_running
    /\ remaining_time = 0
    /\ pending = 0
    /\ btn_text = "Start"
    /\ Len(log) = Len(l0) + 1
    /\ SubSeq(log, 1, Len(l0)) = l0
    /\ log[Len(log)].subject = sub
    /\ log[Len(log)].date = today
    /\ log[Len(log)].minutes = Num(m)

\* C1 (as amended): a timer started for d minutes and left alone reaches
\* zero, stops, and has appended exactly one row, (subject, round(d, 2)),
\* which then stays the last row.
C1_RunCompletes ==
    \A d \in RunDurationTexts : \A sub \in Subjects : \A l0 \in InitialLogs :
        RunStarted(d, sub, l0) ~> [] RunDone(sub, l0, Round2(FloatOf(d).v))

\* A run for 0.125 minutes is over and its row, 0.12, is in the log.
C1_Witness ==
    /\ duration_var = "0.125"
    /\ message = "Session Complete"
    /\ ~timer_running
    /\ pending = 0
    /\ Len(log) = 2
    /\ log[2].minutes = Num(12)

\* C1 (as stated): when the run is over, the row it appended holds d: its
\* minutes column, in hundredths, is d itself.
C1_RowHoldsDuration ==
    message = "Session Complete" =>
        /\ Len(log) >= 1
        /\ ~timer_running
        /\ log[Len(log)].subject = subject_var
        /\ log[Len(log)].minutes.val * 30 = FloatOf(duration_var).v


---------------------------------------------------------------------------
(* The queries over the log file, applied to log contents drawn from       *)
(* bounded sets: up to MaxRows arbitrary rows (numeric, negative,          *)
(* non-numeric and short rows), or one row on each of MaxDates consecutive *)
(* dates.                                                                  *)

MaxRows == 2
MaxDates == 8

LogDays == {1, 2}
LogTimes == {38130, 84600}
MinutesFields == {Num(3000), Num(9050), Num(-100), NotANumber, Missing}

RowInputs ==
    { Row(d, t, sub, m) : d \in LogDays, t \in LogTimes, sub \in Subjects,
                          m \in MinutesFields }

ShortLogs == UNION { [1..n -> RowInputs] : n \in 0..MaxRows }

LongLogs ==
    { [i \in 1..MaxDates |-> Row(i, 84600, subs[i], Num(3000))] :
        subs \in [1..MaxDates -> Subjects] }

\* One session on each of MaxDates consecutive dates, the oldest one longer.
UnevenLogs ==
    { [i \in 1..MaxDates |->
          Row(i, 38130, sub, IF i = 1 THEN Num(9050) ELSE Num(3000))] :
        sub \in Subjects }

InitLog ==
    /\ phase = "on"
    /\ file_exists = TRUE
    /\ log \in ShortLogs \cup LongLogs \cup UnevenLogs
    /\ today \in LogDays
    /\ timer_running = FALSE
    /\ remaining_time = 0
    /\ logged_time = 0
    /\ duration_var = ""
    /\ subject_var = ""
    /\ pending = 0
    /\ timer_label = 0
    /\ btn_text = "Start"
    /\ progress_total = GetTodayMinutes(file_exists, log, today)
    /\ message = "none"
    /\ uncaught = "none"
    /\ result = NoResult
    /\ config_file = ConfigAbsent
    /\ config = DefaultConfig
    /\ daily_goal = PyInt(DEFAULT_DAILY_GOAL)
    /\ goal_var = "690"
    /\ clock \in NowTimes

Answer(op, val) ==
    /\ result' = [op |-> op, val |-> val]
    /\ UNCHANGED << phase, file_exists, log, today, timer_running,
                    remaining_time, logged_time, duration_var, subject_var,
                    pending, timer_label, btn_text, progress_total, message,
                    uncaught, settings, clock >>

QueryToday == Answer("today", GetTodayMinutes(file_exists, log, today))

QueryWeekly == Answer("weekly", GetWeeklyData(file_exists, log))

QueryAll == Answer("all", GetAllData(file_exists, log))

\* The Hourly Productivity (7 Days) button: the buckets and the averages
\* that are plotted.
PlotHourly ==
    /\ result' = [op |-> "hourly",
                  val |-> HourlyByDay(GetWeeklyData(file_exists, log), log),
                  avg |-> HourlyTotals(GetWeeklyData(file_exists, log), log)]
    /\ UNCHANGED << phase, file_exists, log, today, timer_running,
                    remaining_time, logged_time, duration_var, subject_var,
                    pending, timer_label, btn_text, progress_total, message,
                    uncaught, settings, clock >>

NextLog == QueryToday \/ QueryWeekly \/ QueryAll \/ PlotHourly

SpecLog == InitLog /\ [][NextLog]_vars

---------------------------------------------------------------------------
(* What the queries are expected to return, written over the rows.         *)

RECURSIVE SumOver(_, _)
SumOver(S, f) ==
    IF S = {} THEN 0
    ELSE LET x == CHOOSE y \in S : TRUE
         IN  f[x] + SumOver(S \ {x}, f)

IsNumber(row) == row.minutes.tag = "num"

MinutesOf(rows) == [i \in DOMAIN rows |-> rows[i].minutes.val]

\* The numeric rows of the log with the given date (and subject).
RowsOn(rows, d) == { i \in DOMAIN rows : IsNumber(rows[i]) /\ rows[i].date = d }
RowsOf(rows, d, sub) == { i \in RowsOn(rows, d) : rows[i].subject = sub }

\* The log with the rows whose minutes are missing or not a number removed.
WithoutMalformed(rows) == SelectSeq(rows, IsNumber)

\* C4: get_today_minutes returns the sum of the minutes of exactly the rows
\* dated today, and 0 when there is none.
C4_TodaySum ==
    result.op = "today" =>
        result.val = SumOver(RowsOn(log, today), MinutesOf(log))

\* C5: for get_today_minutes, get_weekly_data and get_all_data the answer
\* over a log is the answer over the same log without its malformed rows.
C5_MalformedSkipped ==
    /\ result.op = "today" =>
           result.val = GetTodayMinutes(TRUE, WithoutMalformed(log), today)
    /\ result.op = "weekly" =>
           result.val = GetWeeklyData(TRUE, WithoutMalformed(log))
    /\ result.op = "all" =>
           result.val = GetAllData(TRUE, WithoutMalformed(log))

\* The part of the session of a row that lies in clock hour h of any day,
\* counted from the row's timestamp to its timestamp plus its minutes.
MinutesInHour(row, h) ==
    LET start_time == row.timestamp * 5
        end_time == start_time + row.minutes.val * 3
        hours == { k \in 0..(end_time \div HourLen) : k % 24 = h }
    IN  SumOver(hours,
                [k \in hours |->
                    Max(0, Min(end_time, (k + 1) * HourLen)
                           - Max(start_time, k * HourLen))])

Amounts(slices) == [j \in DOMAIN slices |-> slices[j].amount]

HourlySlicesHold(negative_adds_nothing) ==
    result.op = "hourly" =>
        /\ \A d \in DOMAIN result.val : \A h \in 0..23 :
               result.val[d][h] =
                   SumOver(RowsOn(log, d),
                           [i \in RowsOn(log, d) |-> MinutesInHour(log[i], h)])
        /\ \A i \in DOMAIN log :
               IsNumber(log[i]) /\ log[i].date \in DOMAIN result.val =>
                   LET slices == RowSlices(log[i])
                   IN  /\ \A j \in DOMAIN slices :
                              /\ slices[j].amount > 0
                              /\ slices[j].amount <= HourLen
                       /\ SumOver(DOMAIN slices, Amounts(slices)) =
                              IF negative_adds_nothing /\ log[i].minutes.val < 0
                              THEN 0
                              ELSE log[i].minutes.val * 3

RecentDates(rows) ==
    LET dates == { rows[i].date : i \in DOMAIN rows }
    IN  { d \in dates : Cardinality({ e \in dates : e > d }) < 7 }

\* C7: over a log of numeric rows, get_weekly_data holds exactly the seven
\* most recent dates of the log, each with its per-subject totals.
C7_LastSevenDates ==
    result.op = "weekly" /\ (\A i \in DOMAIN log : IsNumber(log[i])) =>
        /\ DOMAIN result.val = RecentDates(log)
        /\ \A d \in DOMAIN result.val : \A sub \in DOMAIN result.val[d] :
               result.val[d][sub] = SumOver(RowsOf(log, d, sub), MinutesOf(log))


---------------------------------------------------------------------------
(* The settings: the config file a session finds, the Goal entry, Set      *)
(* Goal, Save Subjects, the theme button, and closing the application.     *)

GoalTexts == {"", "abc", "12.5", "0", "-5", "30", " 45 ", "2000"}
SubjectsTexts == {"Math\nArt", " Bio \n\n", " \n"}

\* The JSON values a config file holds under each key.
FileValues(key) ==
    CASE key = "subjects"   -> {JArray(<< "Art" >>)}
      [] key = "daily_goal" -> {JNumber(30), JNumber(2000), JString("abc")}
      [] key = "theme"      -> {JString("dark"), JString("blue")}

AllFileValues == UNION { FileValues(key) : key \in ConfigKeys }

ConfigFiles ==
    {ConfigAbsent, ConfigGarbage, ConfigNotObject}
    \cup { ConfigObject(f) :
             f \in { g \in UNION { [K -> AllFileValues] : K \in SUBSET ConfigKeys } :
                       \A key \in DOMAIN g : g[key] \in FileValues(key) } }

\* Typing into the Goal entry.
TypeGoal(text) ==
    /\ phase = "on"
    /\ text # goal_var
    /\ goal_var' = text
    /\ Assign(Fresh)
    /\ UNCHANGED << phase, today, result, config_file, config, daily_goal,
                    clock >>

\* StudyTrackerApp.set_goal: the Set Goal click.
SetGoal ==
    /\ phase = "on"
    /\ LET g == IntOf(goal_var)
       IN  IF g.k = "ValueError" \/ g.v <= 0
           THEN /\ Assign([Fresh EXCEPT !.message = "Invalid Input"])
                /\ UNCHANGED << config_file, config, daily_goal >>
           ELSE LET new_goal == PyInt(ClampGoal(g.v))
                    saved == SaveConfig([config EXCEPT !.daily_goal = new_goal],
                                        config.subjects, new_goal, PyNone)
                IN  /\ daily_goal' = new_goal
                    /\ IF ProgressRaises(Fresh)
                       THEN \* the ValueError of update_goal_progress is
                            \* caught before anything is saved
                            /\ Assign([Fresh EXCEPT !.message = "Invalid Input"])
                            /\ UNCHANGED << config_file, config >>
                       ELSE /\ Assign([UpdateGoalProgress(Fresh) EXCEPT
                                         !.message = "Goal Updated"])
                            /\ config' = saved.config
                            /\ config_file' = saved.file
    /\ UNCHANGED << phase, today, result, goal_var, clock >>

\* toggle_theme taking a saved theme other than light and dark for light.
ToggleThemeFallbackLight(c) ==
    LET current_mode == IF c.theme \in {PyStr("light"), PyStr("dark")}
                        THEN c.theme ELSE PyStr("light")
        new_mode == IF current_mode = PyStr("dark")
                    THEN PyStr("light") ELSE PyStr("dark")
    IN  SaveConfig(c, c.subjects, c.daily_goal, new_mode)

\* StudyTrackerApp.toggle_theme on the ConfigManager c: the instance after
\* the call and the file it wrote.
ToggleThemeBody(c) ==
    LET current_mode == IF c.theme \in {PyStr("light"), PyStr("dark")}
                        THEN c.theme ELSE PyStr("dark")
        new_mode == IF current_mode = PyStr("dark")
                    THEN PyStr("light") ELSE PyStr("dark")
    IN  SaveConfig(c, c.subjects, c.daily_goal, new_mode)

\* The theme button.
ToggleTheme ==
    /\ phase = "on"
    /\ LET saved == ToggleThemeBody(config)
       IN  /\ config' = saved.config
           /\ config_file' = saved.file
    /\ Assign(Fresh)
    /\ UNCHANGED << phase, today, result, daily_goal, goal_var, clock >>

\* StudyTrackerApp.save_subjects: the Save Subjects click with the given
\* text in the subjects box.
SaveSubjects(text) ==
    /\ phase = "on"
    /\ LET new_subjects == SubjectLines(text)
       IN  IF new_subjects # << >>
           THEN LET saved == SaveConfig(config, PyList(new_subjects), PyNone, PyNone)
                IN  /\ config' = saved.config
                    /\ config_file' = saved.file
                    /\ Assign([Fresh EXCEPT !.message = "Success"])
           ELSE /\ Assign([Fresh EXCEPT !.message = "Error"])
                /\ UNCHANGED << config_file, config >>
    /\ UNCHANGED << phase, today, result, daily_goal, goal_var, clock >>

\* The window is closed (or construction failed): the process ends and only
\* the files remain.
Quit ==
    /\ phase \in {"on", "failed"}
    /\ ~timer_running
    /\ pending = 0
    /\ phase' = "off"
    /\ config' = DefaultConfig
    /\ daily_goal' = PyInt(DEFAULT_DAILY_GOAL)
    /\ goal_var' = "690"
    /\ Assign([Fresh EXCEPT !.progress_total = 0])
    /\ UNCHANGED << today, result, config_file, clock >>

InitConfig ==
    /\ phase = "off"
    /\ InitFile
    /\ today = 1
    /\ timer_running = FALSE
    /\ remaining_time = 0
    /\ logged_time = 0
    /\ duration_var = ""
    /\ subject_var = ""
    /\ pending = 0
    /\ timer_label = 0
    /\ btn_text = "Start"
    /\ progress_total = 0
    /\ message = "none"
    /\ uncaught = "none"
    /\ result = NoResult
    /\ config_file \in ConfigFiles
    /\ config = DefaultConfig
    /\ daily_goal = PyInt(DEFAULT_DAILY_GOAL)
    /\ goal_var = "690"
    /\ clock \in NowTimes

\* What Log Session Now is given in these sessions.
ConfigDurationTexts == {"nan"}
ConfigSubjectTexts == {"Math"}

NextConfig ==
    \/ Startup
    \/ \E text \in GoalTexts : TypeGoal(text)
    \/ SetGoal
    \/ ToggleTheme
    \/ \E text \in SubjectsTexts : SaveSubjects(text)
    \/ \E text \in ConfigDurationTexts : TypeDuration(text)
    \/ \E text \in ConfigSubjectTexts : TypeSubject(text)
    \/ \E now \in NowTimes : ManualLog(now)
    \/ Quit

SpecConfig == InitConfig /\ [][NextConfig]_vars

\* C11: a new ConfigManager has the defaults [Math, Physics, Chemistry], 690
\* and 'system' when the file is absent, unreadable or no JSON object; from
\* a JSON object each field whose key is present takes the file's value and
\* each field whose key is missing takes its default.
C11_LoadFallsBack ==
    [][ phase = "off" /\ phase' # "off" =>
          LET expected(key, default) ==
                  IF config_file.kind = "object" /\ key \in DOMAIN config_file.fields
                  THEN FromJson(config_file.fields[key])
                  ELSE default
          IN  /\ config'.subjects =
                     expected("subjects", PyList(<< "Math", "Physics", "Chemistry" >>))
              /\ config'.daily_goal = expected("daily_goal", PyInt(690))
              /\ config'.theme = expected("theme", PyStr("system")) ]_vars

\* C11 (witness): a session started on a file holding only 'daily_goal' has
\* the file's goal and the default subjects and theme.
C11_Witness ==
    /\ phase = "on"
    /\ config_file.kind = "object"
    /\ DOMAIN config_file.fields = {"daily_goal"}
    /\ config.daily_goal = PyInt(2000)
    /\ config.subjects = DEFAULT_SUBJECTS
    /\ config.theme = PyStr("system")


Saved ==
    /\ SetGoal \/ ToggleTheme \/ \E text \in SubjectsTexts : SaveSubjects(text)
    /\ config_file' # config_file \/ message' \in {"Goal Updated", "Success"}

\* C12: after a save_config from Set Goal, Save Subjects or the theme
\* button, a new ConfigManager loading the file has the subjects, daily_goal
\* and theme of the instance that saved, and the fields save_config was
\* given as None are in the file with the values they had before the call.
C12_RoundTrip ==
    [][ Saved =>
          /\ LoadConfig(config_file') = config'
          /\ config_file'.kind = "object"
          /\ DOMAIN config_file'.fields = ConfigKeys
          /\ SetGoal => config_file'.fields["theme"] = ToJson(config.theme)
          /\ (\E text \in SubjectsTexts : SaveSubjects(text)) =>
                 /\ config_file'.fields["theme"] = ToJson(config.theme)
                 /\ config_file'.fields["daily_goal"] = ToJson(config.daily_goal) ]_vars

\* C12 (witness): subjects, theme and goal have each been saved in turn and
\* the file holds all three.
C12_Witness ==
    /\ phase = "on"
    /\ message = "Goal Updated"
    /\ config = [subjects |-> PyList(<< "Bio" >>), daily_goal |-> PyInt(1440),
                 theme |-> PyStr("light")]
    /\ config_file = ConfigObject([key \in ConfigKeys |-> ToJson(config[key])])


\* The most recent seven of a set of dates (all of them when fewer).
WindowOf(dates) == { d \in dates : Cardinality({ e \in dates : e > d }) < 7 }

\* The minutes of the sessions of date d inside clock hour h.
HourBucket(d, h) ==
    SumOver(RowsOn(log, d), [i \in RowsOn(log, d) |-> MinutesInHour(log[i], h)])

\* C13: the '7-Day Avg' of hour h is the sum of the hour-h buckets of the
\* dates in the window divided by the number of those dates, the window
\* being the most recent seven dates of the data, and it is 0 for every
\* hour when the window is empty.  (Averages are in 1/420 of the bucket unit.)
C13_SevenDayAverage ==
    result.op = "hourly" =>
        LET window == WindowOf(DOMAIN GetWeeklyData(file_exists, log))
        IN  \A h \in 0..23 :
                IF window = {} THEN result.avg[h] = 0
                ELSE result.avg[h] * Cardinality(window) =
                         420 * SumOver(window, [d \in window |-> HourBucket(d, h)])

\* C13 (witness): eight dates in the data, the oldest outside the window;
\* the average of hour 10 is the 24.5 minutes each of the seven later dates
\* has there, and the 60 minutes the oldest date has in hour 11 count nowhere.
C13_Witness ==
    /\ result.op = "hourly"
    /\ Cardinality(DOMAIN GetWeeklyData(file_exists, log)) = 8
    /\ DOMAIN result.val = 2..8
    /\ log[1].minutes = Num(9050)
    /\ result.avg[10] = 7350 * 420
    /\ result.avg[11] = 1650 * 420


---------------------------------------------------------------------------
(* Timer runs of 0.05 minutes during which the Duration entry is edited.   *)

RunText == "0.05"
EditDurationTexts == {"0.05", "0.15"}

NextEdit ==
    \/ Startup
    \/ \E text \in EditDurationTexts : TypeDuration(text)
    \/ RunIdle /\ \E text \in Subjects : TypeSubject(text)
    \/ /\ subject_var # ""
       /\ timer_running \/ remaining_time > 0 \/ duration_var = RunText
       /\ \E now \in NowTimes : ToggleTimer(now)
    \/ \E now \in NowTimes : UpdateTimer(now)

SpecEdit == Init /\ [][NextEdit]_vars

\* C14: the seconds logged by the Pause clicks of a run (logged_time) never
\* exceed the seconds the run has counted down so far, for runs started
\* with 0.05 minutes (3 seconds).
C14_PauseLogsNewTime ==
    logged_time <= IntSeconds(FloatOf(RunText).v) - remaining_time

---------------------------------------------------------------------------
(* One timer run with Pause and resume clicks, the fields left alone once  *)
(* the run has started.                                                    *)

PauseDurationTexts == {"0.125", "0.15"}

\* The rows the session has appended to the log it found.
RunRows(rows) == SelectSeq(rows, LAMBDA r : r \notin OldRows)

\* Nothing has been started or logged yet.
NotStarted ==
    /\ phase = "on"
    /\ ~timer_running
    /\ remaining_time <= 0
    /\ pending = 0
    /\ RunRows(log) = << >>

NextPause ==
    \/ Startup
    \/ NotStarted /\ \E text \in PauseDurationTexts : TypeDuration(text)
    \/ NotStarted /\ \E text \in Subjects : TypeSubject(text)
    \/ /\ \/ timer_running
          \/ remaining_time > 0
          \/ NotStarted /\ duration_var \in PauseDurationTexts /\ subject_var # ""
       /\ \E now \in NowTimes : ToggleTimer(now)
    \/ \E now \in NowTimes : UpdateTimer(now)

SpecPause == Init /\ [][NextPause]_vars

Abs(n) == IF n >= 0 THEN n ELSE -n

\* C15: when the countdown of a run ends, the minutes of the rows the run
\* has appended sum to the duration in the Duration entry, to within the
\* rounding of each row to hundredths of a minute.
C15_RunLogsDuration ==
    message = "Session Complete" =>
        LET rows == RunRows(log)
        IN  Abs(30 * SumOver(DOMAIN rows, MinutesOf(rows)) - FloatOf(duration_var).v)
                <= 15 * Len(rows)


---------------------------------------------------------------------------
(* Further properties of the application (checked under Spec).             *)

\* C16: while the timer is paused (stopped with time remaining, which only
\* a Pause click leaves) every step other than a Start or Reset click,
\* armed callbacks included, leaves remaining_time as it is.
C16_PausedKeepsRemaining ==
    [][ /\ ~timer_running
        /\ remaining_time > 0
        /\ ~Click
        /\ ~ResetTimer
        => remaining_time' = remaining_time ]_vars


\* C17: every row a step appends to the log has minutes greater than 0 and
\* at most 1440.
C17_RowMinutesInRange ==
    [][ Len(log') > Len(log) =>
          /\ log'[Len(log')].minutes.tag = "num"
          /\ log'[Len(log')].minutes.val > 0
          /\ log'[Len(log')].minutes.val <= 1440 * 100 ]_vars


---------------------------------------------------------------------------
(* Log Session Now with any of the field contents below, before, during    *)
(* and after timer runs of 0.125 minutes.                                  *)

ManualDurationTexts == {"nan", "-1", "0.125", "1500"}
ManualSubjectTexts == {"Math", "Comp Sci"}

NextManual ==
    \/ Startup
    \/ \E text \in ManualDurationTexts : TypeDuration(text)
    \/ \E text \in ManualSubjectTexts : TypeSubject(text)
    \/ \E now \in NowTimes : ManualLog(now)
    \/ /\ timer_running \/ remaining_time > 0 \/ duration_var = "0.125"
       /\ \E now \in NowTimes : ToggleTimer(now)
    \/ \E now \in NowTimes : UpdateTimer(now)

SpecManual == Init /\ [][NextManual]_vars

\* C18: Log Session Now appends exactly one row (subject, the duration or
\* 1440 if that is less, as the log rounds it) when the Duration entry parses
\* to a number greater than 0 and the subject is non-empty and alphanumeric;
\* otherwise it appends nothing and shows 'Invalid Input'; either way
\* timer_running, remaining_time and logged_time stay as they are.
C18_ManualLog ==
    [][ (\E now \in NowTimes : ManualLog(now)) =>
          LET f == FloatOf(duration_var)
              valid == /\ f.k = "num"
                       /\ f.v > 0
                       /\ subject_var # ""
                       /\ IsAlnum(subject_var)
          IN  /\ valid =>
                    /\ Len(log') = Len(log) + 1
                    /\ SubSeq(log', 1, Len(log)) = log
                    /\ log'[Len(log')].subject = subject_var
                    /\ log'[Len(log')].minutes = Num(Round2(Min(f.v, 1440 * 3000)))
              /\ ~valid => log' = log /\ message' = "Invalid Input"
              /\ UNCHANGED << timer_running, remaining_time, logged_time >> ]_vars


\* C19: a Reset click leaves the timer stopped with remaining_time 0,
\* logged_time 0 and both fields empty and appends no row, and a callback
\* that fires while the timer is stopped at 0 (as it is after Reset until
\* the next Start) appends no row and leaves it stopped at 0.
C19_Reset ==
    [][ /\ ResetTimer =>
              /\ ~timer_running'
              /\ remaining_time' = 0
              /\ logged_time' = 0
              /\ duration_var' = ""
              /\ subject_var' = ""
              /\ log' = log
        /\ (\E now \in NowTimes : UpdateTimer(now))
             /\ ~timer_running /\ remaining_time = 0 =>
              /\ log' = log
              /\ ~timer_running'
              /\ remaining_time' = 0 ]_vars

\* C19 (witness): the timer was reset while a callback was armed, the
\* fields were filled in again, and the callback has not fired yet.
C19_Witness ==
    /\ phase = "on"
    /\ ~timer_running
    /\ remaining_time = 0
    /\ logged_time = 0
    /\ pending = 1
    /\ duration_var = "0.15"
    /\ subject_var = "Math"
    /\ message = "none"
    /\ Len(log) = 0


---------------------------------------------------------------------------
(* Set Goal (checked under SpecConfig).                                    *)

\* C20: Set Goal with a Goal entry that parses to an integer g > 0 sets the
\* daily goal to min(g, 1440) in the application and in the saved config,
\* whose subjects and theme stay as they were; with any other content the
\* daily goal and the config file are unchanged and 'Invalid Input' is shown.
C20_SetGoal ==
    [][ SetGoal =>
          LET g == IntOf(goal_var)
          IN  IF g.k = "num" /\ g.v > 0
              THEN /\ daily_goal' = PyInt(Min(g.v, 1440))
                   /\ config'.daily_goal = PyInt(Min(g.v, 1440))
                   /\ LoadConfig(config_file') =
                          [config EXCEPT !.daily_goal = PyInt(Min(g.v, 1440))]
              ELSE /\ daily_goal' = daily_goal
                   /\ config' = config
                   /\ config_file' = config_file
                   /\ message' = "Invalid Input" ]_vars


---------------------------------------------------------------------------
(* The daily goal in use (checked under SpecConfig).                       *)

\* C21: while the application runs, the daily goal in use is an integer
\* between 1 and 1440, whatever the config file held at startup and
\* whatever Set Goal was given.
C21_GoalInRange ==
    phase = "on" => /\ daily_goal.t = "int"
                    /\ daily_goal.int >= 1
                    /\ daily_goal.int <= 1440


---------------------------------------------------------------------------
(* The theme button (checked under SpecConfig).                            *)

Light == PyStr("light")
Dark == PyStr("dark")

\* C22: every click on the theme button saves 'light' or 'dark', never
\* 'system': the saved theme is flipped, a saved value other than light and
\* dark counting as dark; a second click right after restores a saved theme
\* that was light or dark; subjects and daily_goal of the config are left
\* as they were.
C22_ToggleTheme ==
    [][ ToggleTheme =>
          /\ config'.theme \in {Light, Dark}
          /\ config'.theme = (IF config.theme = Light THEN Dark ELSE Light)
          /\ config.theme \in {Light, Dark} =>
                 /\ ToggleThemeBody(config').config.theme = config.theme
                 /\ LoadConfig(ToggleThemeBody(config').file).theme = config.theme
          /\ config'.subjects = config.subjects
          /\ config'.daily_goal = config.daily_goal
          /\ LoadConfig(config_file') = config' ]_vars

\* C22 witness: a session that found subjects [Art] and goal 30 in the
\* file has 'light' saved (a theme only the button writes) with the same
\* subjects and goal.
C22_Witness ==
    /\ phase = "on"
    /\ config = [subjects |-> PyList(<< "Art" >>), daily_goal |-> PyInt(30),
                 theme |-> Light]
    /\ LoadConfig(config_file) = config


---------------------------------------------------------------------------
(* plot_graph and plot_time_of_day_productivity.  Minutes are hundredths   *)
(* of a minute, as in the file; the logs these charts are given here hold  *)
(* no "nan" field.                                                         *)

\* sum(f[k] for k in keys)
RECURSIVE SumValues(_, _)
SumValues(f, keys) ==
    IF keys = {} THEN 0
    ELSE LET k == CHOOSE x \in keys : TRUE
         IN  f[k] + SumValues(f, keys \ {k})

\* dates[0] of the sorted dates.
FirstDate(dates) == CHOOSE d \in dates : \A e \in dates : d <= e

\* sorted(data.keys())[-1]
LatestDate(data) == CHOOSE d \in DOMAIN data : \A e \in DOMAIN data : e <= d

\* day_total of one date: data[date].get(subj, 0) added up over subjects.
DayTotal(data, date, subjects) ==
    SumValues([subj \in subjects |->
                  IF subj \in DOMAIN data[date] THEN data[date][subj] ELSE 0],
              subjects)

\* plot_graph(data, daily_goal) up to the drawing: the dates, the subjects
\* (those of the first date), the total of each bar and the weekly average
\* in 1/AvgScale of a hundredth of a minute.
PlotGraph(data) ==
    IF DOMAIN data = {}
    THEN [k |-> "error", message |-> "No study data available!"]
    ELSE LET dates == LastDates(data)
             subjects == DOMAIN data[FirstDate(dates)]
             daily_totals == [date \in dates |-> DayTotal(data, date, subjects)]
         IN  [k |-> "ok", dates |-> dates, subjects |-> subjects,
              daily_totals |-> daily_totals,
              weekly_avg |-> (SumValues(daily_totals, dates) * AvgScale)
                                 \div Cardinality(dates)]

NoSlots == [minutes |-> [h \in 0..23 |-> 0], sessions |-> [h \in 0..23 |-> 0]]

\* The loop over the rows of the file for one date of day_data, rows[i..]:
\* float() raising on a row of the date leaves the with block, and the
\* rows behind it are not read for this date.
RECURSIVE TimeOfDayLoop(_, _, _, _)
TimeOfDayLoop(rows, i, date, slots) ==
    IF i > Len(rows) THEN slots
    ELSE IF rows[i].date # date THEN TimeOfDayLoop(rows, i + 1, date, slots)
    ELSE IF rows[i].minutes.tag = "num"
         THEN LET hour == rows[i].timestamp \div 3600
              IN  TimeOfDayLoop(rows, i + 1, date,
                                [slots EXCEPT
                                   !.minutes[hour] = @ + rows[i].minutes.val,
                                   !.sessions[hour] = @ + 1])
    ELSE slots

\* for date, subjects in day_data.items()
RECURSIVE TimeOfDayDates(_, _, _)
TimeOfDayDates(rows, dates, slots) ==
    IF dates = {} THEN slots
    ELSE LET date == CHOOSE d \in dates : TRUE
         IN  TimeOfDayDates(rows, dates \ {date},
                            TimeOfDayLoop(rows, 1, date, slots))

\* plot_time_of_day_productivity(data, daily_mode) up to the drawing: the
\* dates of day_data, time_slots and session_counts by hour (0 for a slot
\* that has no key).
PlotTimeOfDay(data, rows, daily_mode) ==
    IF DOMAIN data = {}
    THEN [k |-> "error", message |-> "No study data available!"]
    ELSE LET dates == IF daily_mode THEN {LatestDate(data)} ELSE DOMAIN data
             slots == TimeOfDayDates(rows, dates, NoSlots)
         IN  IF \A h \in 0..23 : slots.sessions[h] = 0
             THEN [k |-> "error", message |-> "No time data available!"]
             ELSE [k |-> "ok", dates |-> dates,
                   time_slots |-> slots.minutes,
                   session_counts |-> slots.sessions]

---------------------------------------------------------------------------
(* The chart buttons, on logs of up to MaxRows arbitrary rows and on logs  *)
(* of three rows with the second one numeric, non-numeric or short.        *)

MixedLogs ==
    { << Row(1, 38130, "Math", Num(3000)), Row(1, 38130, sub, m),
         Row(d, 84600, "Physics", Num(9050)) >> :
        sub \in Subjects, m \in {Num(1250), NotANumber, Missing}, d \in LogDays }

InitPlot ==
    /\ phase = "on"
    /\ file_exists = TRUE
    /\ log \in ShortLogs \cup MixedLogs
    /\ today \in LogDays
    /\ timer_running = FALSE
    /\ remaining_time = 0
    /\ logged_time = 0
    /\ duration_var = ""
    /\ subject_var = ""
    /\ pending = 0
    /\ timer_label = 0
    /\ btn_text = "Start"
    /\ progress_total = GetTodayMinutes(file_exists, log, today)
    /\ message = "none"
    /\ uncaught = "none"
    /\ result = NoResult
    /\ config_file = ConfigAbsent
    /\ config = DefaultConfig
    /\ daily_goal = PyInt(DEFAULT_DAILY_GOAL)
    /\ goal_var = "690"
    /\ clock \in NowTimes

\* The Weekly Overview button: plot_graph(get_weekly_data(), daily_goal).
PlotWeekly == Answer("overview", PlotGraph(GetWeeklyData(file_exists, log)))

\* The Daily Productivity button:
\* plot_time_of_day_productivity(get_weekly_data(), daily_mode=True).
PlotDaily ==
    Answer("daily", PlotTimeOfDay(GetWeeklyData(file_exists, log), log, TRUE))

\* The Overall Productivity button:
\* plot_time_of_day_productivity(get_all_data(), daily_mode=False).
PlotOverall ==
    Answer("overall", PlotTimeOfDay(GetAllData(file_exists, log), log, FALSE))

NextPlot == PlotWeekly \/ PlotDaily \/ PlotOverall

SpecPlot == InitPlot /\ [][NextPlot]_vars

\* The numeric rows of the given dates whose timestamp is in hour h.
RowsInSlot(rows, dates, h) ==
    { i \in DOMAIN rows : /\ IsNumber(rows[i])
                          /\ rows[i].date \in dates
                          /\ rows[i].timestamp \div 3600 = h }

\* C23: the Daily Productivity chart, titled '(Today)', aggregates rows of
\* today's date only: the date it selects is today, and no slot counts
\* more sessions than today's rows have in that hour.
C23_DailyIsToday ==
    (result.op = "daily" /\ result.val.k = "ok") =>
        /\ result.val.dates = {today}
        /\ \A h \in 0..23 :
              result.val.session_counts[h]
                  <= Cardinality(RowsInSlot(log, {today}, h))

\* C24: in the Weekly Overview chart the total of the bar of each of the
\* last up to seven dates is the sum of the minutes of all subjects logged
\* on that date, and the weekly average is the sum of these totals divided
\* by the number of dates shown.
C24_BarTotals ==
    (result.op = "overview" /\ result.val.k = "ok") =>
        LET dates == result.val.dates
            expected == [d \in dates |-> SumOver(RowsOn(log, d), MinutesOf(log))]
        IN  /\ dates = RecentDates(WithoutMalformed(log))
            /\ \A d \in dates : result.val.daily_totals[d] = expected[d]
            /\ result.val.weekly_avg * Cardinality(dates)
                   = SumOver(dates, expected) * AvgScale

\* C25: in the time-of-day charts a malformed row is skipped and nothing
\* else is lost: for the selected dates each hour slot holds the sum of the
\* minutes of all well-formed rows of that hour and counts them, wherever
\* a malformed row sits in the file.
C25_SlotsHoldWellFormedRows ==
    (result.op \in {"daily", "overall"} /\ result.val.k = "ok") =>
        \A h \in 0..23 :
            LET counted == RowsInSlot(log, result.val.dates, h)
            IN  /\ result.val.time_slots[h] = SumOver(counted, MinutesOf(log))
                /\ result.val.session_counts[h] = Cardinality(counted)


---------------------------------------------------------------------------
(* One timer run against the wall clock.  The callback armed with          *)
(* root.after(1000, ...) fires one second after it was armed; a click      *)
(* takes no time; Start is clicked when no callback is armed.              *)

StartClocks == {36000, 39590}      \* 10:00:00 and 10:59:50
ClockDurationTexts == {"0.15"}

\* root.after(1000, self.update_timer) comes due: a second has passed and
\* update_timer runs.
UpdateTimerAfterOneSecond ==
    /\ phase = "on"
    /\ pending > 0
    /\ clock' = clock + 1
    /\ Assign(UpdateTimerBody([Fresh EXCEPT !.pending = pending - 1], clock + 1))
    /\ UNCHANGED << phase, today, result, settings >>

\* The Start/Pause click at the time the clock shows.
ClickAtClock == ToggleTimer(clock)

InitClock ==
    /\ phase = "off"
    /\ InitFile
    /\ today = 1
    /\ timer_running = FALSE
    /\ remaining_time = 0
    /\ logged_time = 0
    /\ duration_var = ""
    /\ subject_var = ""
    /\ pending = 0
    /\ timer_label = 0
    /\ btn_text = "Start"
    /\ progress_total = 0
    /\ message = "none"
    /\ uncaught = "none"
    /\ result = NoResult
    /\ config_file = ConfigAbsent
    /\ config = DefaultConfig
    /\ daily_goal = PyInt(DEFAULT_DAILY_GOAL)
    /\ goal_var = "690"
    /\ clock \in StartClocks

NextClock ==
    \/ Startup
    \/ NotStarted /\ \E text \in ClockDurationTexts : TypeDuration(text)
    \/ NotStarted /\ \E text \in Subjects : TypeSubject(text)
    \/ /\ ~timer_running
       /\ pending = 0
       /\ \/ remaining_time > 0
          \/ NotStarted /\ duration_var \in ClockDurationTexts /\ subject_var # ""
       /\ ClickAtClock
    \/ timer_running /\ ClickAtClock
    \/ UpdateTimerAfterOneSecond

SpecClock == InitClock /\ [][NextClock]_vars

RECURSIVE SumAmounts(_)
SumAmounts(slices) ==
    IF slices = << >> THEN 0 ELSE slices[1].amount + SumAmounts(Tail(slices))

\* What plot_hourly_productivity_multiline adds to its buckets for the row
\* from the time e (seconds since midnight of the row's date) onwards.
MinutesAfter(row, e) ==
    IF row.minutes.tag # "num" THEN 0
    ELSE LET start_time == row.timestamp * 5
             end_time == start_time + row.minutes.val * 3
         IN  SumAmounts(Slices(Max(start_time, e * 5), end_time))

\* Pause or the end of the countdown appends a row.
TimerLogs ==
    /\ ClickAtClock \/ UpdateTimerAfterOneSecond
    /\ Len(log') = Len(log) + 1

\* C26: a session the timer logs at clock time e (by Pause or when the
\* countdown ends) gets no minutes in the hour buckets for a time after e.
C26_NoMinutesAfterEnd ==
    [][ TimerLogs => MinutesAfter(log'[Len(log')], clock') = 0 ]_vars

\* What the hourly chart adds for the session in the hours from the one
\* after time e onwards.
MinutesAfterHourOf(row, e) == MinutesAfter(row, (e \div 3600 + 1) * 3600)

\* C26, by the hour: the buckets of the hours after the one in which the
\* session was logged get nothing of it.
C26_NoMinutesInLaterHours ==
    [][ TimerLogs => MinutesAfterHourOf(log'[Len(log')], clock') = 0 ]_vars

============================================================================
